---- MODULE Spec2Model ----
(***************************************************************************)
(* Model of the Jira clone-ticket client (src/JiraClient.py).              *)
(*                                                                         *)
(* Python objects live on a heap: a dict or a list is an object with an    *)
(* address, and a value is a scalar (None, str, int) or a reference to an  *)
(* object.  This keeps aliasing and in-place updates (list.append,         *)
(* dict.setdefault) observable.  A str is a sequence of symbols; every     *)
(* symbol stands for one or more characters that the code never splits.    *)
(* A dict keeps its keys in insertion order, as Python does.               *)
(***************************************************************************)
EXTENDS Integers, Sequences, FiniteSets, TLC

VARIABLES
    heap,       \* the Python heap: a sequence of objects, the address is the index
    doc,        \* the description tree handed to the program, as a JSON term
    input,      \* adf_doc: the heap value holding that tree
    attachments,\* the source issue's attachment list: filenames, in order
    cursor,     \* copy_attachments: index of the next source attachment
    copied,     \* copy_attachments: copied_attachments, the records built so far
    result,     \* the outcome of _adf_replace_media_with_attachment_links
    result2,    \* the outcome of calling it again on its own output
    text,       \* the outcome of _extract_text_from_adf
    pc,         \* position in the run
    issue,      \* the 'fields' of the source issue as the server holds them
    log,        \* the requests sent so far, in order
    temp,       \* the files in the temp directory
    new_issue_key, \* clone_issue_with_media_upload: the key of the created issue
    ret,         \* the value returned by the function that the run is about
    selected_issues, \* the main script: the issues chosen for cloning
    place,      \* the main script: index of the issue the loop is at
    all_issues, \* search_issues_by_jql: the issues collected so far
    next_page_token, \* search_issues_by_jql: the token of the last response
    pages,      \* the page requests of the search under way and their responses
    existing_issues, \* the main script: what search_issues_by_summary returned
    args        \* the arguments of the function that the run is about

\* The variables of the runs of clone_issue_with_media_upload.
clone == <<issue, log, temp, new_issue_key, ret>>
\* The variables of the runs of the main script.
main == <<selected_issues, place, all_issues, next_page_token, pages, existing_issues>>

vars == <<heap, doc, input, attachments, cursor, copied, result, result2, text, pc, clone, main, args>>

(***************************************************************************)
(* Bounds of the model.                                                    *)
(***************************************************************************)
MaxChildren == 2
MaxAttachments == 2

(***************************************************************************)
(* JSON terms: the immutable reading of a Python value.                    *)
(***************************************************************************)
JNull == [t |-> "null", s |-> <<>>, n |-> 0, keys |-> <<>>, vals |-> <<>>]
JStr(s) == [t |-> "str", s |-> s, n |-> 0, keys |-> <<>>, vals |-> <<>>]
JNum(n) == [t |-> "num", s |-> <<>>, n |-> n, keys |-> <<>>, vals |-> <<>>]
JDict(keys, vals) == [t |-> "dict", s |-> <<>>, n |-> 0, keys |-> keys, vals |-> vals]
JList(vals) == [t |-> "list", s |-> <<>>, n |-> 0, keys |-> <<>>, vals |-> vals]
S(x) == JStr(<<x>>)

(***************************************************************************)
(* Heap values and objects.                                                *)
(***************************************************************************)
None == [t |-> "null", s |-> <<>>, n |-> 0]
Str(s) == [t |-> "str", s |-> s, n |-> 0]
Num(n) == [t |-> "num", s |-> <<>>, n |-> n]
Ref(a) == [t |-> "ref", s |-> <<>>, n |-> a]
DictObj(keys, vals) == [k |-> "dict", keys |-> keys, vals |-> vals]
ListObj(vals) == [k |-> "list", keys |-> <<>>, vals |-> vals]

IsDict(h, v) == v.t = "ref" /\ h[v.n].k = "dict"
IsList(h, v) == v.t = "ref" /\ h[v.n].k = "list"

\* bool(v): None, "", 0, {} and [] are false.
Truthy(h, v) ==
    CASE v.t = "null" -> FALSE
      [] v.t = "str" -> v.s # <<>>
      [] v.t = "num" -> v.n # 0
      [] OTHER -> Len(h[v.n].vals) > 0

HasKey(o, key) == \E i \in 1..Len(o.keys) : o.keys[i] = key
KeyIndex(o, key) == CHOOSE i \in 1..Len(o.keys) : o.keys[i] = key
\* dict.get(key, default)
DictGet(o, key, default) == IF HasKey(o, key) THEN o.vals[KeyIndex(o, key)] ELSE default

Alloc(h, obj) == [h |-> Append(h, obj), v |-> Ref(Len(h) + 1)]

\* F applied to the value of e, which is evaluated once (a local variable
\* assignment followed by the statements that use it).
Bind(e, F(_)) == CHOOSE y \in {F(x) : x \in {e}} : TRUE

RECURSIVE Store(_, _)
RECURSIVE StoreAll(_, _, _, _)
\* Build the objects of JSON term j on heap h: [h |-> heap, v |-> value].
Store(h, j) ==
    CASE j.t = "null" -> [h |-> h, v |-> None]
      [] j.t = "str" -> [h |-> h, v |-> Str(j.s)]
      [] j.t = "num" -> [h |-> h, v |-> Num(j.n)]
      [] OTHER ->
           Bind(StoreAll(h, j.vals, 1, <<>>), LAMBDA r :
               Alloc(r.h, IF j.t = "dict" THEN DictObj(j.keys, r.vs) ELSE ListObj(r.vs)))
StoreAll(h, js, i, acc) ==
    IF i > Len(js) THEN [h |-> h, vs |-> acc]
    ELSE Bind(Store(h, js[i]), LAMBDA r :
             StoreAll(r.h, js, i + 1, Append(acc, r.v)))

RECURSIVE Load(_, _)
\* The JSON term that heap value v denotes.
Load(h, v) ==
    CASE v.t = "null" -> JNull
      [] v.t = "str" -> JStr(v.s)
      [] v.t = "num" -> JNum(v.n)
      [] OTHER ->
           LET o == h[v.n]
               js == [i \in 1..Len(o.vals) |-> Load(h, o.vals[i])]
           IN IF o.k = "dict" THEN JDict(o.keys, js) ELSE JList(js)

(***************************************************************************)
(* _adf_replace_media_with_attachment_links (src/JiraClient.py 517-607).   *)
(* An operator that can raise returns ok = FALSE; the exception passes     *)
(* through every caller up to the action.                                  *)
(***************************************************************************)
Raise(h) == [ok |-> FALSE, h |-> h, v |-> None]
Return(h, v) == [ok |-> TRUE, h |-> h, v |-> v]

JTruthy(j) ==
    CASE j.t = "null" -> FALSE
      [] j.t = "str" -> j.s # <<>>
      [] j.t = "num" -> j.n # 0
      [] OTHER -> Len(j.vals) > 0

\* A record of copied_attachments takes part in the mapping when both its
\* filename and its content are truthy.
Mapped(item) == JTruthy(item.filename) /\ JTruthy(item.content)

\* filename_to_url: a Python dict built in record order.  A key keeps the
\* position of its first insertion and the value of its last one.  The
\* result is the sequence of <<filename, url>> entries in dict order.
RECURSIVE filename_to_url(_)
filename_to_url(copied_attachments) ==
    IF copied_attachments = <<>> THEN <<>>
    ELSE LET n == Len(copied_attachments)
             item == copied_attachments[n]
             before == filename_to_url(SubSeq(copied_attachments, 1, n - 1))
         IN IF ~Mapped(item) THEN before
            ELSE IF \E i \in 1..Len(before) : before[i][1] = item.filename.s
                 THEN [i \in 1..Len(before) |->
                          IF before[i][1] = item.filename.s
                          THEN <<before[i][1], item.content.s>> ELSE before[i]]
                 ELSE Append(before, <<item.filename.s, item.content.s>>)

\* filename_to_url.get(filename); a dict or a list is unhashable (TypeError).
UrlOf(h, m, filename) ==
    IF filename.t = "ref" THEN Raise(h)
    ELSE IF filename.t = "str" /\ \E i \in 1..Len(m) : m[i][1] = filename.s
         THEN Return(h, Str(m[CHOOSE i \in 1..Len(m) : m[i][1] = filename.s][2]))
         ELSE Return(h, None)

LinkMarks(url) == JList(<<JDict(<<"type", "attrs">>,
                              <<S("link"), JDict(<<"href">>, <<url>>)>>)>>)

\* make_link_paragraph(filename, url), a fresh tree.
make_link_paragraph(filename, url) ==
    LET txt == IF JTruthy(filename) THEN filename ELSE S("attachment")
    IN IF ~JTruthy(url)
       THEN JDict(<<"type", "content">>,
                  <<S("paragraph"),
                    JList(<<JDict(<<"type", "text">>, <<S("text"), txt>>)>>)>>)
       ELSE JDict(<<"type", "content">>,
                  <<S("paragraph"),
                    JList(<<JDict(<<"type", "text", "marks">>,
                                  <<S("text"), txt, LinkMarks(url)>>)>>)>>)

\* The filename read from 'name' first and from 'fileName' second.
MediaFilename_nameFirst(h, media) ==
    IF ~IsDict(h, media) THEN Raise(h)
    ELSE LET mo == h[media.n]
             attrs == DictGet(mo, "attrs", None)
         IN IF ~HasKey(mo, "attrs") THEN Return(h, None)
            ELSE IF ~IsDict(h, attrs) THEN Raise(h)
            ELSE LET fileName == DictGet(h[attrs.n], "fileName", None)
                     name == DictGet(h[attrs.n], "name", None)
                 IN Return(h, IF Truthy(h, name) THEN name ELSE fileName)

\* media.get('attrs', {}).get('fileName') or media.get('attrs', {}).get('name')
\* A media that is no dict, or an attrs that is no dict, has no .get
\* (AttributeError).
MediaFilename(h, media) ==
    IF ~IsDict(h, media) THEN Raise(h)
    ELSE LET mo == h[media.n]
             attrs == DictGet(mo, "attrs", None)
         IN IF ~HasKey(mo, "attrs") THEN Return(h, None)
            ELSE IF ~IsDict(h, attrs) THEN Raise(h)
            ELSE LET fileName == DictGet(h[attrs.n], "fileName", None)
                     name == DictGet(h[attrs.n], "name", None)
                 IN Return(h, IF Truthy(h, fileName) THEN fileName ELSE name)

\* filename = ...; url = filename_to_url.get(filename);
\* make_link_paragraph(filename or 'image', url)      (lines 545-547, 552-554, 558-560)
MediaParagraph(h, m, media) ==
    Bind(MediaFilename(h, media), LAMBDA f :
        IF ~f.ok THEN Raise(h)
        ELSE Bind(UrlOf(h, m, f.v), LAMBDA u :
            IF ~u.ok THEN Raise(h)
            ELSE Bind(IF Truthy(h, f.v) THEN f.v ELSE Str(<<"image">>), LAMBDA shown :
                 Bind(Store(h, make_link_paragraph(Load(h, shown), Load(h, u.v))),
                      LAMBDA p : Return(p.h, p.v)))))

EmptyParagraph ==
    JDict(<<"type", "content">>,
          <<S("paragraph"), JList(<<JDict(<<"type", "text">>, <<S("text"), JStr(<<>>)>>)>>)>>)

\* The media types without mediaSingle.
IsMediaType_noSingle(v) == v \in {Str(<<"media">>), Str(<<"mediaGroup">>)}

\* node.get('type') in ('media', 'mediaSingle', 'mediaGroup')
IsMediaType(v) ==
    v \in {Str(<<"media">>), Str(<<"mediaSingle">>), Str(<<"mediaGroup">>)}

\* A test that takes every dict with a list of children for a wrapper.
IsSpliceMarker_untyped(h, v) ==
    /\ IsDict(h, v)
    /\ IsList(h, DictGet(h[v.n], "content", None))

\* The test of line 571: a dict of type doc whose content is a list.
IsSpliceMarker(h, v) ==
    /\ IsDict(h, v)
    /\ DictGet(h[v.n], "type", None) = Str(<<"doc">>)
    /\ IsList(h, DictGet(h[v.n], "content", None))

RECURSIVE transform(_, _, _)
RECURSIVE transformGroup(_, _, _, _, _)
RECURSIVE transformContent(_, _, _, _, _)
RECURSIVE transformItems(_, _, _, _, _)
RECURSIVE transformDict(_, _, _, _, _)

Failed(h) == [ok |-> FALSE, h |-> h, vs |-> <<>>]

\* The loop of lines 551-554 over the items of a mediaGroup.
transformGroup(h, m, items, i, paragraphs) ==
    IF i > Len(items) THEN [ok |-> TRUE, h |-> h, vs |-> paragraphs]
    ELSE Bind(MediaParagraph(h, m, items[i]), LAMBDA p :
             IF ~p.ok THEN Failed(h)
             ELSE transformGroup(p.h, m, items, i + 1, Append(paragraphs, p.v)))

\* The loop of lines 568-574 over the children of a 'content' list.
transformContent(h, m, children, i, acc) ==
    IF i > Len(children) THEN [ok |-> TRUE, h |-> h, vs |-> acc]
    ELSE Bind(transform(h, m, children[i]), LAMBDA c :
             IF ~c.ok THEN Failed(h)
             ELSE IF IsSpliceMarker(c.h, c.v)
                  THEN transformContent(c.h, m, children, i + 1,
                           acc \o c.h[DictGet(c.h[c.v.n], "content", None).n].vals)
                  ELSE transformContent(c.h, m, children, i + 1, Append(acc, c.v)))

\* [transform(child) for child in node]       (line 581)
transformItems(h, m, items, i, acc) ==
    IF i > Len(items) THEN [ok |-> TRUE, h |-> h, vs |-> acc]
    ELSE Bind(transform(h, m, items[i]), LAMBDA c :
             IF ~c.ok THEN Failed(h)
             ELSE transformItems(c.h, m, items, i + 1, Append(acc, c.v)))

\* The loop with the values of the other keys copied as they are.
transformDict_contentOnly(h, m, o, i, acc) ==
    IF i > Len(o.keys) THEN [ok |-> TRUE, h |-> h, vs |-> acc]
    ELSE IF o.keys[i] = "content" /\ IsList(h, o.vals[i])
         THEN Bind(transformContent(h, m, h[o.vals[i].n].vals, 1, <<>>), LAMBDA r :
                  IF ~r.ok THEN Failed(h)
                  ELSE Bind(Alloc(r.h, ListObj(r.vs)), LAMBDA l :
                           transformDict(l.h, m, o, i + 1, Append(acc, l.v))))
         ELSE transformDict(h, m, o, i + 1, Append(acc, o.vals[i]))

\* for k, v in node.items(): ...              (lines 563-578)
transformDict(h, m, o, i, acc) ==
    IF i > Len(o.keys) THEN [ok |-> TRUE, h |-> h, vs |-> acc]
    ELSE IF o.keys[i] = "content" /\ IsList(h, o.vals[i])
         THEN Bind(transformContent(h, m, h[o.vals[i].n].vals, 1, <<>>), LAMBDA r :
                  IF ~r.ok THEN Failed(h)
                  ELSE Bind(Alloc(r.h, ListObj(r.vs)), LAMBDA l :
                           transformDict(l.h, m, o, i + 1, Append(acc, l.v))))
         ELSE Bind(transform(h, m, o.vals[i]), LAMBDA c :
                  IF ~c.ok THEN Failed(h)
                  ELSE transformDict(c.h, m, o, i + 1, Append(acc, c.v)))

\* A node rebuilt from its type and its children only.
new_node_bare(h, o, vals) ==
    LET kept == {i \in 1..Len(o.keys) : o.keys[i] \in {"type", "content"}}
        Pick(seq) == SelectSeq([i \in 1..Len(seq) |-> <<i, seq[i]>>], LAMBDA e : e[1] \in kept)
    IN Alloc(h, DictObj([i \in 1..Len(Pick(o.keys)) |-> Pick(o.keys)[i][2]],
                        [i \in 1..Len(Pick(vals)) |-> Pick(vals)[i][2]]))

\* new_node: the dict that lines 562-579 fill, one entry per key of the
\* node and in the node's key order, with the transformed values.
new_node(h, o, vals) == Alloc(h, DictObj(o.keys, vals))

\* The wrapper of line 555 around the paragraphs of a mediaGroup.
GroupWrapper(h, paragraphs) ==
    Bind(Alloc(h, ListObj(paragraphs)), LAMBDA l :
        Bind(Alloc(l.h, DictObj(<<"type", "version", "content">>,
                                <<Str(<<"doc">>), Num(1), l.v>>)),
             LAMBDA d : Return(d.h, d.v)))

\* transform(node)                            (lines 539-583)
transform(h, m, node) ==
    IF IsDict(h, node)
    THEN LET o == h[node.n]
             node_type == DictGet(o, "type", None)
             content == DictGet(o, "content", None)
         IN CASE node_type = Str(<<"mediaSingle">>) ->
                   \* node.get('content', [{}])[0] if node.get('content') else {}
                   IF ~Truthy(h, content)
                   THEN Bind(Alloc(h, DictObj(<<>>, <<>>)), LAMBDA e :
                            MediaParagraph(e.h, m, e.v))
                   ELSE IF IsList(h, content)
                        THEN MediaParagraph(h, m, h[content.n].vals[1])
                        ELSE Raise(h)
              [] node_type = Str(<<"mediaGroup">>) ->
                   \* for media in node.get('content', []) or []
                   IF ~Truthy(h, content)
                   THEN Bind(Store(h, EmptyParagraph), LAMBDA p : Return(p.h, p.v))
                   ELSE IF ~IsList(h, content) THEN Raise(h)
                   ELSE Bind(transformGroup(h, m, h[content.n].vals, 1, <<>>), LAMBDA r :
                            IF ~r.ok THEN Raise(h) ELSE GroupWrapper(r.h, r.vs))
              [] node_type = Str(<<"media">>) -> MediaParagraph(h, m, node)
              [] OTHER ->
                   Bind(transformDict(h, m, o, 1, <<>>), LAMBDA r :
                       IF ~r.ok THEN Raise(h)
                       ELSE Bind(new_node(r.h, o, r.vs), LAMBDA d : Return(d.h, d.v)))
    ELSE IF IsList(h, node)
    THEN Bind(transformItems(h, m, h[node.n].vals, 1, <<>>), LAMBDA r :
             IF ~r.ok THEN Raise(h)
             ELSE Bind(Alloc(r.h, ListObj(r.vs)), LAMBDA l : Return(l.h, l.v)))
    ELSE Return(h, node)

LinkedText(name, url) ==
    JDict(<<"type", "text", "marks">>, <<S("text"), JStr(name), LinkMarks(JStr(url))>>)

\* attachments_list                           (lines 591-604)
attachments_list(m) ==
    JDict(<<"type", "content">>,
          <<S("bulletList"),
            JList([i \in 1..Len(m) |->
                JDict(<<"type", "content">>,
                      <<S("listItem"),
                        JList(<<JDict(<<"type", "content">>,
                                      <<S("paragraph"),
                                        JList(<<LinkedText(m[i][1], m[i][2])>>)>>)>>)>>)])>>)

AttachmentsParagraph ==
    JDict(<<"type", "content">>,
          <<S("paragraph"),
            JList(<<JDict(<<"type", "text">>, <<S("text"), S("Attachments:")>>)>>)>>)

\* A post-pass that appends to the tree it was given.
PostPassTarget_input(adf_doc, transformed) == adf_doc

\* The object that the post-pass appends to         (lines 605-606)
PostPassTarget(adf_doc, transformed) == transformed

\* list.append(x) on the object that value l denotes; a value that is no list
\* has no append (AttributeError).
ListAppend(h, l, x) ==
    IF ~IsList(h, l) THEN Raise(h)
    ELSE Return([h EXCEPT ![l.n].vals = Append(@, x)], None)

\* dict.setdefault(key, []) on the dict at address a.
SetDefaultList(h, a, key) ==
    IF HasKey(h[a], key) THEN Return(h, DictGet(h[a], key, None))
    ELSE LET l == Alloc(h, ListObj(<<>>))
         IN Return([l.h EXCEPT ![a].keys = Append(@, key), ![a].vals = Append(@, l.v)], l.v)

\* The two appends in the other order: the list first, the paragraph second.
AppendAttachments_listFirst(h, m, tgt) ==
    Bind(Store(h, attachments_list(m)), LAMBDA al :
    Bind(SetDefaultList(al.h, tgt.n, "content"), LAMBDA c :
    Bind(Store(c.h, AttachmentsParagraph), LAMBDA ap :
    Bind(ListAppend(ap.h, c.v, al.v), LAMBDA a1 :
        IF ~a1.ok THEN Raise(a1.h)
        ELSE ListAppend(a1.h, DictGet(a1.h[tgt.n], "content", None), ap.v)))))

\* The two appends of lines 605-606 to the object at tgt.
AppendAttachments(h, m, tgt) ==
    Bind(Store(h, attachments_list(m)), LAMBDA al :
    Bind(SetDefaultList(al.h, tgt.n, "content"), LAMBDA c :
    Bind(Store(c.h, AttachmentsParagraph), LAMBDA ap :
    Bind(ListAppend(ap.h, c.v, ap.v), LAMBDA a1 :
        IF ~a1.ok THEN Raise(a1.h)
        ELSE ListAppend(a1.h, DictGet(a1.h[tgt.n], "content", None), al.v)))))

\* The post-pass                              (lines 587-607)
PostPass(h, m, adf_doc, transformed) ==
    LET urls == SelectSeq(m, LAMBDA e : e[2] # <<>>)
    IN IF /\ IsDict(h, transformed)
          /\ DictGet(h[transformed.n], "type", None) = Str(<<"doc">>)
          /\ urls # <<>>
       THEN Bind(AppendAttachments(h, m, PostPassTarget(adf_doc, transformed)), LAMBDA a :
                IF ~a.ok THEN Raise(a.h) ELSE Return(a.h, transformed))
       ELSE Return(h, transformed)

\* _adf_replace_media_with_attachment_links(adf_doc, copied_attachments)
ReplaceMedia(h, adf_doc, copied_attachments) ==
    Bind(filename_to_url(copied_attachments), LAMBDA m :
        Bind(transform(h, m, adf_doc), LAMBDA t :
            IF ~t.ok THEN Raise(t.h) ELSE PostPass(t.h, m, adf_doc, t.v)))


(***************************************************************************)
(* _extract_text_from_adf (src/JiraClient.py 150-169).                     *)
(***************************************************************************)
\* str(value) of line 162.  The text of a dict or of a list is one symbol.
StrOf(v) ==
    CASE v.t = "str" -> v.s
      [] v.t = "null" -> <<"None">>
      [] v.t = "num" -> <<ToString(v.n)>>
      [] OTHER -> <<"repr">>

RECURSIVE extract_text_from_adf(_, _)
RECURSIVE extract_join(_, _, _)
RECURSIVE extract_join_spaced(_, _, _)
\* " ".join(...): the texts of the values with a blank between them.
extract_join_spaced(h, values, i) ==
    IF i > Len(values) THEN <<>>
    ELSE extract_text_from_adf(h, values[i])
            \o (IF i < Len(values) THEN <<" ">> ELSE <<>>)
            \o extract_join_spaced(h, values, i + 1)

\* "".join(_extract_text_from_adf(x) for x in values), from index i on
extract_join(h, values, i) ==
    IF i > Len(values) THEN <<>>
    ELSE extract_text_from_adf(h, values[i]) \o extract_join(h, values, i + 1)
extract_text_from_adf(h, node) ==
    IF IsDict(h, node)
    THEN LET o == h[node.n]
         IN IF IsMediaType(DictGet(o, "type", None)) THEN <<>>
            ELSE (IF DictGet(o, "type", None) = Str(<<"text">>) /\ HasKey(o, "text")
                  THEN StrOf(DictGet(o, "text", None)) ELSE <<>>)
                 \o extract_join(h, o.vals, 1)
    ELSE IF IsList(h, node) THEN extract_join(h, h[node.n].vals, 1)
    ELSE <<>>

\* _extract_text_from_adf(j) for a tree given as a JSON term.
TextOf(j) == Bind(Store(<<>>, j), LAMBDA st : extract_text_from_adf(st.h, st.v))

(***************************************************************************)
(* The description trees and attachment lists the runs start from.         *)
(***************************************************************************)
Text(s) == JDict(<<"type", "text">>, <<S("text"), S(s)>>)
\* A text node of several symbols; " " is a blank.
Words(s) == JDict(<<"type", "text">>, <<S("text"), JStr(s)>>)
Media(attrs) == JDict(<<"type", "attrs">>, <<S("media"), attrs>>)
Node(type, children) == JDict(<<"type", "content">>, <<S(type), JList(children)>>)
Doc(children) ==
    JDict(<<"type", "version", "content">>, <<S("doc"), JNum(1), JList(children)>>)

FileA == JDict(<<"id", "fileName">>, <<S("id-1"), S("a.png")>>)
NameB == JDict(<<"id", "name">>, <<S("id-2"), S("b.png")>>)
EmptyFileNameB == JDict(<<"fileName", "name">>, <<JStr(<<>>), S("b.png")>>)
FileC == JDict(<<"fileName", "name">>, <<S("c.png"), S("a.png")>>)
NoName == JDict(<<"id">>, <<S("id-3")>>)

\* Children that docs of every length up to MaxChildren are built from.
Blocks ==
    { Node("paragraph", <<Words(<<"Hello", " ">>), Text("world")>>),
      Node("mediaSingle", <<Media(FileA), Node("caption", <<Text("cap")>>)>>),
      Media(NoName),
      Node("mediaGroup", <<Media(FileA), Media(NameB)>>) }

\* Children tried alone.
LoneBlocks ==
    { Media(JNull),
      Doc(<<Node("paragraph", <<Text("in")>>)>>),
      Node("mediaGroup", <<>>),
      Node("mediaSingle", <<>>),
      Node("mediaSingle", <<S("x")>>),
      Node("mediaGroup", <<Media(FileC), S("x")>>),
      Media(EmptyFileNameB),
      Media(FileC),
      Media(JDict(<<"fileName">>, <<JList(<<>>)>>)),
      JDict(<<"type", "attrs", "content">>,
            <<S("paragraph"), Media(FileA), JList(<<Text("x")>>)>>),
      JDict(<<"type", "attrs", "content">>,
            <<S("panel"), JDict(<<"panelType">>, <<S("info")>>),
              JList(<<Node("mediaGroup", <<Media(NameB)>>)>>)>>),
      Node("paragraph", <<JList(<<Node("mediaGroup", <<Media(FileA)>>)>>)>>),
      JDict(<<"type", "content">>,
            <<S("paragraph"), Node("mediaGroup", <<Media(FileA)>>)>>),
      Node("paragraph",
           <<JDict(<<"type", "text", "marks">>,
                   <<S("text"), S("bold"),
                     JList(<<JDict(<<"type">>, <<S("strong")>>)>>)>>)>>),
      Node("bulletList",
           <<Node("listItem", <<Node("paragraph", <<Text("item")>>),
                                Node("mediaSingle", <<Media(NameB)>>)>>)>>),
      JDict(<<"type", "attrs", "content">>,
            <<S("orderedList"), JDict(<<"order">>, <<JNum(3)>>),
              JList(<<Node("listItem", <<Node("paragraph", <<Text("one")>>)>>)>>)>>) }

\* Roots that are no doc with a list of children.
OtherRoots ==
    { JDict(<<"type", "version">>, <<S("doc"), JNum(1)>>),
      JDict(<<"type", "version", "content">>, <<S("doc"), JNum(1), JNull>>),
      JDict(<<"type", "version", "content">>,
            <<S("doc"), JNum(1), Node("mediaGroup", <<Media(FileA)>>)>>),
      Node("mediaGroup", <<Media(FileA), Media(NameB)>>),
      Node("mediaSingle", <<Media(FileA)>>),
      Media(NameB),
      Media(NoName),
      Node("paragraph", <<Words(<<"Hello", " ">>), Media(FileA)>>),
      JDict(<<"type", "content">>, <<S("mediaSingle"), Media(FileA)>>) }

RECURSIVE SeqsUpTo(_, _)
\* The sequences over set X of length at most n.
SeqsUpTo(X, n) ==
    IF n = 0 THEN {<<>>}
    ELSE LET shorter == SeqsUpTo(X, n - 1)
         IN shorter \cup {Append(q, x) : q \in {r \in shorter : Len(r) = n - 1}, x \in X}

Docs ==
    {Doc(cs) : cs \in SeqsUpTo(Blocks, MaxChildren)}
        \cup {Doc(<<b>>) : b \in LoneBlocks} \cup OtherRoots

FileNames == {<<"a.png">>, <<"b.png">>}
AttachmentLists == SeqsUpTo(FileNames, MaxAttachments)

NoResult == [ok |-> FALSE, v |-> None]

Init ==
    /\ doc \in Docs
    /\ attachments \in AttachmentLists
    /\ \E st \in {Store(<<>>, doc)} : heap = st.h /\ input = st.v
    /\ cursor = 1
    /\ copied = <<>>
    /\ result = NoResult
    /\ result2 = NoResult
    /\ text = <<>>
    /\ pc = "create"
    /\ issue = JDict(<<"description">>, <<doc>>)
    /\ log = <<>>
    /\ temp = {}
    /\ new_issue_key = JNull
    /\ ret = JNull
    /\ args = <<>>
    /\ selected_issues = <<>>
    /\ place = 1
    /\ all_issues = <<>>
    /\ next_page_token = JNull
    /\ pages = <<>>
    /\ existing_issues = <<>>

\* create_issue extracts the text of the source description (line 173).
ExtractText ==
    /\ pc = "create"
    /\ text' = extract_text_from_adf(heap, input)
    /\ pc' = "copy"
    /\ UNCHANGED <<heap, doc, input, attachments, cursor, copied, result, result2, clone, main, args>>

\* The download URL that the server gives the i-th uploaded copy.
NewUrl(i) == <<"https://jira/new/", ToString(i)>>

\* One turn of the loop of copy_attachments (lines 483-512): the download
\* fails, or the upload fails, or the upload succeeds and a record is added.
CopyOutcomes == {"download_failed", "upload_failed", "uploaded", "uploaded_no_content"}
\* The record of lines 503-509 for the i-th source attachment.
CopiedRecord(i, filename, outcome) ==
    [old_id |-> S(ToString(i)),
     new_id |-> S(ToString(100 + i)),
     filename |-> JStr(filename),
     content |-> IF outcome = "uploaded" THEN JStr(NewUrl(i)) ELSE JNull]

CopyAttachment ==
    /\ pc = "copy"
    /\ cursor <= Len(attachments)
    /\ \E outcome \in CopyOutcomes :
          copied' =
              IF outcome \in {"uploaded", "uploaded_no_content"}
              THEN Append(copied, CopiedRecord(cursor, attachments[cursor], outcome))
              ELSE copied
    /\ cursor' = cursor + 1
    /\ UNCHANGED <<heap, doc, input, attachments, result, result2, text, pc, clone, main, args>>

\* clone_issue_with_media_upload, step 3 (lines 642-643): the description is
\* a dict and is rewritten with the records copy_attachments returned.
Rewrite ==
    /\ pc = "copy"
    /\ cursor > Len(attachments)
    /\ IsDict(heap, input)
    /\ \E r \in {ReplaceMedia(heap, input, copied)} :
          /\ heap' = r.h
          /\ result' = [ok |-> r.ok, v |-> r.v]
    /\ pc' = "rewritten"
    /\ UNCHANGED <<doc, input, attachments, cursor, copied, result2, text, clone, main, args>>

\* The rewrite applied to its own output with the same records.
RewriteAgain ==
    /\ pc = "rewritten"
    /\ result.ok
    /\ \E r \in {ReplaceMedia(heap, result.v, copied)} :
          /\ heap' = r.h
          /\ result2' = [ok |-> r.ok, v |-> r.v]
    /\ pc' = "done"
    /\ UNCHANGED <<doc, input, attachments, cursor, copied, result, text, clone, main, args>>

Next == ExtractText \/ CopyAttachment \/ Rewrite \/ RewriteAgain

Spec == Init /\ [][Next]_vars

(***************************************************************************)
(* create_issue (src/JiraClient.py 98-262) as clone_issue_with_media_upload *)
(* calls it: description = None and linked_issue_key = the source key.     *)
(***************************************************************************)
SourceKey == <<"SRC-1">>
NewKey == <<"NEW-1">>

\* A request sent to the server: what it asks for, what it carries, and how
\* it is answered.
Request(op, arg, answer) == [op |-> op, arg |-> arg, answer |-> answer]

\* A request returns 200/201 ("ok"), returns another status ("not_ok"), or
\* fails in the network and raises ("error").
Outcomes == {"ok", "not_ok", "error"}

\* key in j, and j[key], for a JSON value j.
JHas(j, key) == j.t = "dict" /\ \E i \in 1..Len(j.keys) : j.keys[i] = key
JGet(j, key) == j.vals[CHOOSE i \in 1..Len(j.keys) : j.keys[i] = key]

IsBlank(symbol) == symbol \in {" "}
RECURSIVE strip(_)
\* str.strip()
strip(s) ==
    IF s = <<>> THEN s
    ELSE IF IsBlank(Head(s)) THEN strip(Tail(s))
    ELSE IF IsBlank(s[Len(s)]) THEN strip(SubSeq(s, 1, Len(s) - 1))
    ELSE s

\* The doc of one paragraph with one text node (lines 132-141 and 178-188).
TextDoc(t) == Doc(<<Node("paragraph", <<JDict(<<"type", "text">>, <<S("text"), t>>)>>)>>)

\* f"Cloned from {linked_issue_key}"
Placeholder(linked_issue_key) == <<"Cloned from ">> \o linked_issue_key

text_only_unchanged(original_desc, linked_issue_key) == original_desc
\* Lines 172-188: the text-only document made of a dict description.
text_only(original_desc, linked_issue_key) ==
    LET plain_text == strip(TextOf(original_desc))
    IN TextDoc(JStr(IF plain_text = <<>> /\ linked_issue_key # <<>>
                    THEN Placeholder(linked_issue_key) ELSE plain_text))

\* use_description_on_create (lines 118-188 and 248) for linked_issue, the
\* value that get_issue returned: the issue, or null.
use_description_on_create(linked_issue, linked_issue_key) ==
    LET has == /\ JTruthy(linked_issue) /\ JHas(linked_issue, "fields")
               /\ JHas(JGet(linked_issue, "fields"), "description")
        original_desc == IF has THEN JGet(JGet(linked_issue, "fields"), "description") ELSE JNull
        description ==
            IF ~has THEN JNull
            ELSE IF original_desc.t = "dict" THEN original_desc
            ELSE TextDoc(IF JTruthy(original_desc) THEN original_desc ELSE JStr(<<>>))
        use == IF original_desc.t = "dict"
               THEN text_only(original_desc, linked_issue_key)
               ELSE description
    IN IF JTruthy(use) THEN use ELSE JNull

\* The issue that the server returns for the source key.
IssueJson(fields) == JDict(<<"key", "fields">>, <<JStr(SourceKey), fields>>)

CreateOutcomes == {"created", "created_no_key", "not_ok", "error"}

\* create_issue: the requests it sends, whether it raises, and the key it
\* returns (null for None), for the outcomes of its four requests.
create_issue(fields, linked_issue_key, get, meta, post, link) ==
    LET linked_issue == IF get = "ok" THEN IssueJson(fields) ELSE JNull
        r1 == <<Request("get_issue", JStr(linked_issue_key), get)>>
        r2 == Append(r1, Request("createmeta", JNull, meta))
        r3 == Append(r2, Request("create",
                                 use_description_on_create(linked_issue, linked_issue_key),
                                 post))
        r4 == Append(r3, Request("link", JStr(linked_issue_key), link))
    IN IF get = "error" THEN [log |-> r1, raised |-> TRUE, v |-> JNull]
       ELSE IF meta = "error" THEN [log |-> r2, raised |-> TRUE, v |-> JNull]
       ELSE IF post = "error" THEN [log |-> r3, raised |-> TRUE, v |-> JNull]
       ELSE IF post = "not_ok" THEN [log |-> r3, raised |-> FALSE, v |-> JNull]
       ELSE IF link = "error" THEN [log |-> r4, raised |-> TRUE, v |-> JNull]
       ELSE [log |-> r4, raised |-> FALSE,
             v |-> IF post = "created" THEN JStr(NewKey) ELSE JNull]

(***************************************************************************)
(* clone_issue_with_media_upload (lines 609-650) with copy_attachments     *)
(* (lines 472-515) step by step.  log is the sequence of requests sent,    *)
(* temp the files in the temp directory, ret the value returned.           *)
(***************************************************************************)
\* Descriptions of the source issue.
Descriptions ==
    { JNull, JStr(<<>>), JStr(<<" ">>), JStr(<<"plain">>),
      Doc(<<>>),
      Doc(<<Node("mediaSingle", <<Media(FileA)>>)>>),
      Doc(<<Node("paragraph", <<Words(<<" ">>)>>), Media(NoName)>>),
      Doc(<<Node("paragraph", <<Words(<<" ", "Hello", " ">>), Text("world"), Words(<<" ">>)>>),
            Node("mediaGroup", <<Media(FileA), Media(NameB)>>)>>),
      Doc(<<Media(JNull)>>),
      JDict(<<>>, <<>>) }

\* The fields of the source issue, without and with a description.
SourceFields ==
    {JDict(<<"summary">>, <<S("s")>>)}
        \cup {JDict(<<"summary", "description">>, <<S("s"), d>>) : d \in Descriptions}

\* fields.get('description') (line 621).
DescriptionOf(fields) == IF JHas(fields, "description") THEN JGet(fields, "description") ELSE JNull

CloneInit ==
    /\ issue \in SourceFields
    /\ doc = DescriptionOf(issue)
    /\ attachments \in AttachmentLists
    /\ heap = <<>>
    /\ input = None
    /\ cursor = 1
    /\ copied = <<>>
    /\ result = NoResult
    /\ result2 = NoResult
    /\ text = <<>>
    /\ pc = "fetch"
    /\ log = <<>>
    /\ temp = {}
    /\ new_issue_key = JNull
    /\ ret = JNull
    /\ args = <<>>
    /\ selected_issues = <<>>
    /\ place = 1
    /\ all_issues = <<>>
    /\ next_page_token = JNull
    /\ pages = <<>>
    /\ existing_issues = <<>>

\* Lines 615-621: the source issue is fetched; without it None is returned.
FetchSource ==
    /\ pc = "fetch"
    /\ \E outcome \in Outcomes :
          /\ log' = Append(log, Request("get_issue", JStr(SourceKey), outcome))
          /\ \/ /\ outcome = "ok"
                /\ \E st \in {Store(heap, doc)} : heap' = st.h /\ input' = st.v
                /\ pc' = "create_issue"
                /\ ret' = ret
             \/ /\ outcome = "not_ok"
                /\ pc' = "returned"
                /\ ret' = JNull
                /\ UNCHANGED <<heap, input>>
             \/ /\ outcome = "error"
                /\ pc' = "raised"
                /\ UNCHANGED <<heap, input, ret>>
    /\ UNCHANGED <<doc, attachments, cursor, copied, result, result2, text,
                   issue, temp, new_issue_key>>
    /\ UNCHANGED <<main, args>>

NoKey_never(v) == FALSE
\* if not new_issue_key (line 635)
NoKey(v) == ~JTruthy(v)

\* Lines 625-636: create_issue; without a key None is returned.
CreateIssue ==
    /\ pc = "create_issue"
    /\ \E get \in Outcomes, meta \in Outcomes, post \in CreateOutcomes, link \in Outcomes :
          \E r \in {create_issue(issue, SourceKey, get, meta, post, link)} :
             /\ log' = log \o r.log
             /\ IF r.raised
                THEN pc' = "raised" /\ UNCHANGED <<new_issue_key, ret>>
                ELSE IF NoKey(r.v)
                THEN pc' = "returned" /\ ret' = JNull /\ UNCHANGED new_issue_key
                ELSE pc' = "list" /\ new_issue_key' = r.v /\ UNCHANGED ret
    /\ UNCHANGED <<heap, doc, input, attachments, cursor, copied, result, result2, text,
                   issue, temp>>
    /\ UNCHANGED <<main, args>>

\* Lines 477-482 and 515: the attachments of the source are listed; any
\* status but 200 ends copy_attachments with no record.
ListAttachments ==
    /\ pc = "list"
    /\ \E outcome \in Outcomes :
          /\ log' = Append(log, Request("list_attachments", JStr(SourceKey), outcome))
          /\ \/ outcome = "ok" /\ pc' = "copy" /\ cursor' = 1
             \/ outcome = "not_ok" /\ pc' = "copy" /\ cursor' = Len(attachments) + 1
             \/ outcome = "error" /\ pc' = "raised" /\ cursor' = cursor
    /\ UNCHANGED <<heap, doc, input, attachments, copied, result, result2, text,
                   issue, temp, new_issue_key, ret>>
    /\ UNCHANGED <<main, args>>

\* Lines 483-497: the next attachment is downloaded and written to the temp
\* directory; a download that is not ok is passed over.
Download ==
    /\ pc = "copy"
    /\ cursor <= Len(attachments)
    /\ \E outcome \in Outcomes :
          /\ log' = Append(log, Request("download", JStr(attachments[cursor]), outcome))
          /\ \/ /\ outcome = "ok"
                /\ temp' = temp \cup {attachments[cursor]}
                /\ pc' = "staged"
                /\ cursor' = cursor
             \/ /\ outcome = "not_ok"
                /\ cursor' = cursor + 1
                /\ UNCHANGED <<temp, pc>>
             \/ /\ outcome = "error"
                /\ pc' = "raised"
                /\ UNCHANGED <<temp, cursor>>
    /\ UNCHANGED <<heap, doc, input, attachments, copied, result, result2, text,
                   issue, new_issue_key, ret>>
    /\ UNCHANGED <<main, args>>

\* The upload succeeds with the new attachment in the response (with or
\* without its URL), succeeds with a response that json()[0] cannot read,
\* is refused, or fails in the network.
UploadOutcomes == {"uploaded", "uploaded_no_content", "malformed", "not_ok", "error"}

\* Whether the turn of the loop reaches os.remove (line 512): an exception
\* from attach_file (line 500) or from json()[0] (line 502) leaves the loop.
ReachesRemove(outcome) == outcome \notin {"malformed", "error"}

\* Lines 500-512: the temp file is uploaded, the copy recorded, the temp
\* file removed.
Upload ==
    /\ pc = "staged"
    /\ \E outcome \in UploadOutcomes :
          /\ log' = Append(log, Request("upload", JStr(attachments[cursor]), outcome))
          /\ copied' = IF outcome \in {"uploaded", "uploaded_no_content"}
                       THEN Append(copied, CopiedRecord(cursor, attachments[cursor], outcome))
                       ELSE copied
          /\ IF ReachesRemove(outcome)
             THEN /\ temp' = temp \ {attachments[cursor]}
                  /\ cursor' = cursor + 1
                  /\ pc' = "copy"
             ELSE /\ pc' = "raised"
                  /\ UNCHANGED <<temp, cursor>>
    /\ UNCHANGED <<heap, doc, input, attachments, result, result2, text,
                   issue, new_issue_key, ret>>
    /\ UNCHANGED <<main, args>>

\* Lines 642 and 650: a description that is no dict is not rewritten.
ReturnWithoutUpdate ==
    /\ pc = "copy"
    /\ cursor > Len(attachments)
    /\ ~IsDict(heap, input)
    /\ pc' = "returned"
    /\ ret' = new_issue_key
    /\ UNCHANGED <<heap, doc, input, attachments, cursor, copied, result, result2, text,
                   issue, log, temp, new_issue_key>>
    /\ UNCHANGED <<main, args>>

AfterUpdate_noneOnFailure(ok, key) == IF ok THEN key ELSE JNull
\* What the clone returns after the update request (lines 647-650).
AfterUpdate(ok, key) == key

\* Lines 643-650: an exception of the rewrite leaves the clone; otherwise the
\* rewritten description is sent, and the key returned whatever the answer.
UpdateDescription ==
    /\ pc = "rewritten"
    /\ IF ~result.ok
       THEN pc' = "raised" /\ UNCHANGED <<log, ret>>
       ELSE \E outcome \in Outcomes :
               /\ log' = Append(log, Request("update", Load(heap, result.v), outcome))
               /\ IF outcome = "error"
                  THEN pc' = "raised" /\ ret' = ret
                  ELSE pc' = "returned" /\ ret' = AfterUpdate(outcome = "ok", new_issue_key)
    /\ UNCHANGED <<heap, doc, input, attachments, cursor, copied, result, result2, text,
                   issue, temp, new_issue_key>>
    /\ UNCHANGED <<main, args>>

CloneNext ==
    \/ FetchSource \/ CreateIssue \/ ListAttachments \/ Download \/ Upload
    \/ Rewrite \/ ReturnWithoutUpdate \/ UpdateDescription

CloneSpec == CloneInit /\ [][CloneNext]_vars

(***************************************************************************)
(* The creation loop of the main script (src/jira-clone-ticket-new.py      *)
(* 291-316) with search_issues_by_summary and search_issues_by_jql         *)
(* (src/JiraClient.py 298-377).                                            *)
(***************************************************************************)
MaxSelected == 2
MaxPages == 2

\* The key of the k-th selected issue.
KeyOf(k) == <<"SRC-", ToString(k)>>
\* A selected issue: without a description (the fields that the JQL search
\* asks for), with a document, or with a null description.
SelectedFields ==
    { JDict(<<"summary">>, <<S("s")>>),
      JDict(<<"summary", "description">>, <<S("s"), Doc(<<Node("paragraph", <<Text("t")>>)>>)>>),
      JDict(<<"summary", "description">>, <<S("s"), JNull>>) }
SelectedLists ==
    {[k \in 1..Len(q) |-> JDict(<<"key", "fields">>, <<JStr(KeyOf(k)), q[k]>>)] :
        q \in SeqsUpTo(SelectedFields, MaxSelected) \ {<<>>}}

\* extract_description_text (src/JiraClient.py 379-386) raises when the
\* description is there and is no dict: .get('description', {}).get(...).
extract_description_raises(selected) ==
    /\ JHas(JGet(selected, "fields"), "description")
    /\ JGet(JGet(selected, "fields"), "description").t # "dict"

MainInit ==
    /\ selected_issues \in SelectedLists
    /\ place = 1
    /\ all_issues = <<>>
    /\ next_page_token = JNull
    /\ pages = <<>>
    /\ existing_issues = <<>>
    /\ pc = "loop"
    /\ log = <<>>
    /\ heap = <<>>
    /\ doc = JNull
    /\ input = None
    /\ attachments = <<>>
    /\ cursor = 1
    /\ copied = <<>>
    /\ result = NoResult
    /\ result2 = NoResult
    /\ text = <<>>
    /\ issue = JNull
    /\ temp = {}
    /\ new_issue_key = JNull
    /\ ret = JNull
    /\ args = <<>>

\* Lines 291-297 of the script and 346-347 of the client: the loop takes the
\* next selected issue, makes its clone summary, and starts the search.
NextIssue ==
    /\ pc = "loop"
    /\ place <= Len(selected_issues)
    /\ IF extract_description_raises(selected_issues[place])
       THEN pc' = "raised" /\ UNCHANGED <<all_issues, next_page_token, pages>>
       ELSE /\ pc' = "search"
            /\ all_issues' = <<>>
            /\ next_page_token' = JNull
            /\ pages' = <<>>
    /\ UNCHANGED <<selected_issues, place, existing_issues>>
    /\ UNCHANGED <<heap, doc, input, attachments, cursor, copied, result, result2, text, clone, args>>

\* The loop has passed the last selected issue.
EndOfLoop ==
    /\ pc = "loop"
    /\ place > Len(selected_issues)
    /\ pc' = "exit"
    /\ UNCHANGED <<heap, doc, input, attachments, cursor, copied, result, result2, text,
                   clone, main, args>>

\* The nextPageToken and the issue of the k-th page.
Token(k) == JStr(<<"token-", ToString(k)>>)
IssueOnPage(k) == JStr(<<"DUP-", ToString(k)>>)
\* The responses to the k-th page request: OK with or without an issue and
\* with or without a token (none on the last page), a status that is not
\* OK, or a RequestException.
Responses(k) ==
    {[answer |-> "ok", issues |-> found, token |-> t] :
        found \in {<<>>, <<IssueOnPage(k)>>},
        t \in IF k < MaxPages THEN {JNull, Token(k)} ELSE {JNull}}
      \cup {[answer |-> a, issues |-> <<>>, token |-> JNull] : a \in {"not_ok", "error"}}

\* payload["nextPageToken"] (lines 355-356): null stands for no such key.
TokenSent(token) == IF JTruthy(token) THEN token ELSE JNull

OnFailure_partial(collected) == collected
\* return [] (lines 362 and 374)
OnFailure(collected) == <<>>

\* One turn of the loop of search_issues_by_jql (lines 349-374); when the
\* search ends, search_issues_by_summary hands its result to the script
\* (lines 312-318 of the client, 297 of the script).
SearchPage ==
    /\ pc = "search"
    /\ \E response \in Responses(Len(pages) + 1) :
          /\ pages' = Append(pages, [sent |-> TokenSent(next_page_token),
                                     answer |-> response.answer,
                                     issues |-> response.issues,
                                     token |-> response.token])
          /\ IF response.answer # "ok"
             THEN /\ existing_issues' = OnFailure(all_issues)
                  /\ pc' = "searched"
                  /\ UNCHANGED <<all_issues, next_page_token>>
             ELSE /\ all_issues' = all_issues \o response.issues
                  /\ next_page_token' = response.token
                  /\ IF JTruthy(response.token)
                     THEN pc' = "search" /\ UNCHANGED existing_issues
                     ELSE pc' = "searched" /\ existing_issues' = all_issues'
    /\ UNCHANGED <<selected_issues, place>>
    /\ UNCHANGED <<heap, doc, input, attachments, cursor, copied, result, result2, text, clone, args>>

Skips_never(existing) == FALSE
\* if existing_issues (line 298 of the script)
Skips(existing) == existing # <<>>

\* Lines 298-312 of the script: an issue whose summary is found is passed
\* over; otherwise clone_issue_with_media_upload is called with the keyword
\* parent_key, which its signature (src/JiraClient.py 609) does not have.
CloneOrSkip ==
    /\ pc = "searched"
    /\ IF Skips(existing_issues)
       THEN /\ place' = place + 1
            /\ pc' = "loop"
            /\ UNCHANGED log
       ELSE /\ log' = Append(log, Request("clone_issue_with_media_upload",
                                          JGet(selected_issues[place], "key"), "TypeError"))
            /\ pc' = "raised"
            /\ UNCHANGED place
    /\ UNCHANGED <<selected_issues, all_issues, next_page_token, pages, existing_issues>>
    /\ UNCHANGED <<heap, doc, input, attachments, cursor, copied, result, result2, text,
                   issue, temp, new_issue_key, ret, args>>

MainNext == NextIssue \/ EndOfLoop \/ SearchPage \/ CloneOrSkip

MainSpec == MainInit /\ [][MainNext]_vars

(***************************************************************************)
(* search_issues_excpt_head_by_jql (src/JiraClient.py 445-469) with        *)
(* get_linked_issues (411-443), as the script calls it in search mode      *)
(* (src/jira-clone-ticket-new.py 273).  Issue keys and summaries are       *)
(* sequences of symbols, so that 'in' between strings can be told.         *)
(***************************************************************************)
MaxLinks == 2

\* The variables of the rewrite, the clone and the main loop, at rest.
AtRest ==
    /\ heap = <<>>
    /\ doc = JNull
    /\ input = None
    /\ attachments = <<>>
    /\ cursor = 1
    /\ copied = <<>>
    /\ result = NoResult
    /\ result2 = NoResult
    /\ text = <<>>
    /\ issue = JNull
    /\ temp = {}
    /\ new_issue_key = JNull
    /\ selected_issues = <<>>
    /\ place = 1
    /\ all_issues = <<>>
    /\ next_page_token = JNull
    /\ pages = <<>>
    /\ existing_issues = <<>>
AtRestStill ==
    UNCHANGED <<heap, doc, input, attachments, cursor, copied, result, result2, text,
                issue, temp, new_issue_key, main>>

\* sub in s, for two strings.
Contains(sub, s) ==
    \E i \in 0..(Len(s) - Len(sub)) : SubSeq(s, i + 1, i + Len(sub)) = sub

HeadStr == <<"Clone-">>
\* f"Clone-{summary}({org_key})" (line 89 of the script)
CloneSummary(summary, key) == HeadStr \o summary \o <<"(">> \o key \o <<")">>

K1 == <<"K", "-", "1">>
K10 == <<"K", "-", "1", "0">>
\* An issue as the search returns it.
Found(key) ==
    JDict(<<"key", "fields">>, <<JStr(key), JDict(<<"summary">>, <<S("s")>>)>>)
\* The results of the JQL search.
FoundLists == {<<>>, <<Found(K1)>>, <<Found(K10)>>,
               <<Found(K1), Found(K10)>>, <<Found(K10), Found(K1)>>}
\* The summaries of the issues linked to one issue on the server: clones
\* made by the script, and another issue.
LinkedSummaries == {CloneSummary(<<"s">>, K1), CloneSummary(<<"s">>, K10), <<"other">>}
LinkLists == SeqsUpTo(LinkedSummaries, MaxLinks)

ExcptInit ==
    /\ \E found \in FoundLists :
          \E linked \in [1..Len(found) -> LinkLists] :
             args = [issues |-> found, linked |-> linked, head_str |-> HeadStr]
    /\ pc = "call"
    /\ log = <<>>
    /\ ret = JNull
    /\ AtRest

\* head_str in item['summary'] and key in item['summary'] (line 461)
is_clone_link(summary, head_str, key) == Contains(head_str, summary) /\ Contains(key, summary)

RECURSIVE excpt_loop(_, _, _, _, _, _, _)
\* The loop of lines 448-467 from the i-th issue on, with the issues kept
\* and the requests sent so far; answers[i] is how the request of
\* get_linked_issues for the i-th issue is answered, and linked[i] is what
\* the server holds for it.
excpt_loop(issues, linked, answers, head_str, i, ret_issues, sent) ==
    IF i > Len(issues) THEN [raised |-> FALSE, v |-> ret_issues, log |-> sent]
    ELSE LET key == JGet(issues[i], "key").s
             sentNow == Append(sent, Request("get_linked_issues", JStr(key), answers[i]))
             items == IF answers[i] = "ok" THEN linked[i] ELSE <<>>
             skip_item == \E n \in 1..Len(items) : is_clone_link(items[n], head_str, key)
         IN IF answers[i] = "error"
            THEN [raised |-> TRUE, v |-> ret_issues, log |-> sentNow]
            ELSE excpt_loop(issues, linked, answers, head_str, i + 1,
                            IF skip_item THEN ret_issues ELSE Append(ret_issues, issues[i]),
                            sentNow)

search_issues_excpt_head(issues, linked, answers, head_str) ==
    excpt_loop(issues, linked, answers, head_str, 1, <<>>, <<>>)

\* The call of search_issues_excpt_head_by_jql, after its JQL search.
ExcptHead ==
    /\ pc = "call"
    /\ \E answers \in [1..Len(args.issues) -> Outcomes] :
          \E r \in {search_issues_excpt_head(args.issues, args.linked, answers, args.head_str)} :
             /\ log' = r.log
             /\ pc' = IF r.raised THEN "raised" ELSE "returned"
             /\ ret' = IF r.raised THEN ret ELSE JList(r.v)
    /\ UNCHANGED args
    /\ AtRestStill

ExcptNext == ExcptHead

ExcptSpec == ExcptInit /\ [][ExcptNext]_vars

(***************************************************************************)
(* The issue type that create_issue sends (src/JiraClient.py 190-241 and   *)
(* 247), from the requested type, the types that get_project_issue_types   *)
(* (77-92) returned, and the linked issue.                                 *)
(***************************************************************************)
MaxTypes == 2

\* A type as get_project_issue_types returns it (line 92).
Type(id, name) == JDict(<<"id", "name">>, <<id, name>>)
AllowedTypes ==
    { Type(S("1"), S("Task")), Type(S("2"), S("Bug")),
      Type(JNull, S("Bug")), Type(JNull, S("Story")) }
\* The lists of allowed types; the empty list also stands for a createmeta
\* request that failed or named no project (lines 84-90).
AllowedLists == SeqsUpTo(AllowedTypes, MaxTypes)
RequestedTypes ==
    { JNull, S("Task"), S("bug"), S("2"), S("9"), S("Epic"), JStr(<<" ", "Bug", " ">>) }
\* The linked issue that get_issue returned: none, or an issue without a
\* type, with a null type, or with a type.
LinkedIssues ==
    { JNull, IssueJson(JDict(<<"summary">>, <<S("s")>>)) }
      \cup { IssueJson(JDict(<<"summary", "issuetype">>, <<S("s"), t>>)) :
               t \in { JNull, Type(S("2"), S("Bug")), Type(S("9"), S("Epic")),
                       Type(S("9"), S("story")), JDict(<<"name">>, <<S("task")>>) } }

\* str.lower() and str.isdigit() on the symbols of the model.
Lower(symbol) ==
    CASE symbol = "Task" -> "task"
      [] symbol = "Bug" -> "bug"
      [] symbol = "Story" -> "story"
      [] symbol = "Epic" -> "epic"
      [] OTHER -> symbol
lower(s) == [i \in 1..Len(s) |-> Lower(s[i])]
isdigit(s) == s # <<>> /\ \A i \in 1..Len(s) : s[i] \in {"1", "2", "9"}
\* str(v) for a string or None.
py_str(v) == IF v.t = "str" THEN v.s ELSE <<"None">>
\* d.get(key) and d.get(key, "")
get(d, key) == IF JHas(d, key) THEN JGet(d, key) ELSE JNull
\* The first index of q whose element satisfies P; 0 if there is none.
FirstWhere(q, P(_)) ==
    IF \E i \in 1..Len(q) : P(q[i])
    THEN CHOOSE i \in 1..Len(q) : P(q[i]) /\ \A j \in 1..(i - 1) : ~P(q[j])
    ELSE 0

same_name_exact(a, b) == a = b
\* str(a).lower() == str(b).lower() (lines 204 and 221)
same_name(a, b) == lower(a) = lower(b)

\* {"id": ...} if the allowed type has an id, else {"name": name}
\* (lines 206-209, 224-227, 235).
IdOrName(type, name) ==
    IF JTruthy(get(type, "id")) THEN JDict(<<"id">>, <<get(type, "id")>>)
    ELSE JDict(<<"name">>, <<name>>)

\* Lines 194-210: the requested type matched by id, then by name.
requested_type(issue_type, allowed_types) ==
    IF ~JTruthy(issue_type) THEN JNull
    ELSE LET itype == strip(py_str(issue_type))
             byId == IF allowed_types # <<>> /\ isdigit(itype)
                     THEN FirstWhere(allowed_types, LAMBDA it : py_str(get(it, "id")) = itype)
                     ELSE 0
             byName == FirstWhere(allowed_types,
                                  LAMBDA it : same_name(py_str(get(it, "name")), itype))
         IN IF byId # 0 THEN JDict(<<"id">>, <<get(allowed_types[byId], "id")>>)
            ELSE IF byName # 0
            THEN IdOrName(allowed_types[byName], get(allowed_types[byName], "name"))
            ELSE JNull

\* Lines 213-229: the type of the linked issue, if the project allows it.
\* A linked issue whose issuetype is null raises in line 217 and the
\* exception is passed over (lines 228-229).
source_type(linked_issue, allowed_types) ==
    LET fields == IF JTruthy(linked_issue) THEN get(linked_issue, "fields") ELSE JNull
        src_type == IF fields.t = "dict" /\ JHas(fields, "issuetype")
                    THEN JGet(fields, "issuetype") ELSE JDict(<<>>, <<>>)
    IN IF src_type.t # "dict" \/ allowed_types = <<>> THEN JNull
       ELSE LET src_id == IF JTruthy(get(src_type, "id"))
                          THEN JStr(py_str(get(src_type, "id"))) ELSE JNull
                src_name == get(src_type, "name")
                match == FirstWhere(allowed_types,
                             LAMBDA it : same_name(py_str(get(it, "name")), py_str(src_name)))
            IN IF JTruthy(src_id)
                  /\ \E i \in 1..Len(allowed_types) :
                        py_str(get(allowed_types[i], "id")) = src_id.s
               THEN JDict(<<"id">>, <<src_id>>)
               ELSE IF JTruthy(src_name) /\ match # 0
               THEN IdOrName(allowed_types[match], src_name)
               ELSE JNull

\* Lines 232-241: the first allowed type, or the requested name or "Task".
fallback_type(issue_type, allowed_types) ==
    IF allowed_types # <<>>
    THEN IdOrName(allowed_types[1], get(allowed_types[1], "name"))
    ELSE JDict(<<"name">>, <<IF JTruthy(issue_type) THEN issue_type ELSE S("Task")>>)

\* resolved_issuetype (lines 190-241).
resolved_issuetype(issue_type, allowed_types, linked_issue, linked_issue_key) ==
    LET requested == requested_type(issue_type, allowed_types)
        source == IF linked_issue_key # <<>>
                  THEN source_type(linked_issue, allowed_types) ELSE JNull
    IN IF requested # JNull THEN requested
       ELSE IF source # JNull THEN source
       ELSE fallback_type(issue_type, allowed_types)

TypeInit ==
    /\ \E issue_type \in RequestedTypes, allowed_types \in AllowedLists,
          linked_issue \in LinkedIssues, linked_issue_key \in {<<>>, SourceKey} :
          /\ linked_issue_key = <<>> => linked_issue = JNull
          /\ args = [issue_type |-> issue_type, allowed_types |-> allowed_types,
                     linked_issue |-> linked_issue, linked_issue_key |-> linked_issue_key]
    /\ pc = "call"
    /\ log = <<>>
    /\ ret = JNull
    /\ AtRest

\* create_issue resolves the type and puts it in the fields of the create
\* request (line 247).
ResolveIssueType ==
    /\ pc = "call"
    /\ ret' = resolved_issuetype(args.issue_type, args.allowed_types,
                                 args.linked_issue, args.linked_issue_key)
    /\ pc' = "returned"
    /\ UNCHANGED <<args, log>>
    /\ AtRestStill

TypeNext == ResolveIssueType

TypeSpec == TypeInit /\ [][TypeNext]_vars

(***************************************************************************)
(* Readings of the state that the properties below share.                  *)
(***************************************************************************)
Rewritten == pc \in {"rewritten", "done"}
Mapping == filename_to_url(copied)
Output == Load(heap, result.v)
Output2 == Load(heap, result2.v)
JType(j) == IF j.t = "dict" /\ \E i \in 1..Len(j.keys) : j.keys[i] = "type"
            THEN j.vals[CHOOSE i \in 1..Len(j.keys) : j.keys[i] = "type"] ELSE JNull
JIsMedia(j) == JType(j) \in {S("media"), S("mediaSingle"), S("mediaGroup")}
JIsDoc(j) == JType(j) = S("doc")

\* C1: once _adf_replace_media_with_attachment_links has returned (or
\* raised), the tree it was given, with every dict and list reachable from
\* it, reads as it did before the call; also when the post-pass appended the
\* "Attachments:" paragraph and the bullet list to the result.
C1_InputNotMutated == Rewritten => Load(heap, input) = doc

\* A doc-rooted tree rewritten with a mapping that has an entry: the
\* post-pass appended to the result.
C1_Witness ==
    /\ pc = "rewritten" /\ result.ok
    /\ JIsDoc(doc) /\ Mapping # <<>>
    /\ Output # doc

\* C2: the rewrite returns a tree for every tree and every mapping; it never
\* raises.
C2_NeverRaises == pc = "rewritten" => result.ok

\* C3: the rewrite applied to its own output with the same mapping returns a
\* tree equal to that output.
C3_Idempotent == pc = "done" /\ result2.ok => Output2 = Output

RECURSIVE JHasMedia(_)
\* Tree j holds a node of type media, mediaSingle or mediaGroup.
JHasMedia(j) == JIsMedia(j) \/ \E i \in 1..Len(j.vals) : JHasMedia(j.vals[i])

JIsDocWithList(j) == JIsDoc(j) /\ JHas(j, "content") /\ JGet(j, "content").t = "list"

RECURSIVE JHasNestedDoc(_)
\* Tree j holds a doc-typed node with a list of children as an element of
\* some node's 'content' list.
JHasNestedDoc(j) ==
    \/ /\ JHas(j, "content")
       /\ JGet(j, "content").t = "list"
       /\ \E i \in 1..Len(JGet(j, "content").vals) : JIsDocWithList(JGet(j, "content").vals[i])
    \/ \E i \in 1..Len(j.vals) : JHasNestedDoc(j.vals[i])

\* Tree j with the two nodes of the post-pass at the end of its 'content'
\* (a 'content' that is absent is created), when j is doc-typed and mapping
\* m has an entry; j itself otherwise.
WithAttachments(j, m) ==
    IF ~JIsDoc(j) \/ m = <<>> THEN j
    ELSE LET added == <<AttachmentsParagraph, attachments_list(m)>>
         IN IF JHas(j, "content")
            THEN JDict(j.keys,
                       [i \in 1..Len(j.keys) |->
                           IF j.keys[i] = "content"
                           THEN JList(j.vals[i].vals \o added) ELSE j.vals[i]])
            ELSE JDict(Append(j.keys, "content"), Append(j.vals, JList(added)))

OneForOne(children) ==
    \A i \in 1..Len(children) :
        JType(children[i]) # S("mediaGroup") /\ ~JIsDocWithList(children[i])

\* A value that holds nothing the rewrite replaces or splices.
Inert(j) == ~JHasMedia(j) /\ ~JHasNestedDoc(j)

RECURSIVE Framed(_, _, _, _)
\* Node out is node in with the same keys and the same attributes other
\* than 'content', and so are the nodes below that the rewrite keeps one
\* for one.  lenient: only the attributes that are Inert must be equal, and
\* the nodes inside the other attributes are compared in turn.  root: the
\* node is the root, whose 'content' the post-pass may create or extend.
Framed(in, out, lenient, root) ==
    IF in.t = "list"
    THEN /\ out.t = "list"
         /\ Len(out.vals) = Len(in.vals)
         /\ \A i \in 1..Len(in.vals) : Framed(in.vals[i], out.vals[i], lenient, FALSE)
    ELSE IF in.t # "dict" \/ JIsMedia(in) THEN TRUE
    ELSE /\ out.t = "dict"
         /\ \/ out.keys = in.keys
            \/ /\ lenient /\ root /\ JIsDoc(in) /\ ~JHas(in, "content") /\ Mapping # <<>>
               /\ out.keys = Append(in.keys, "content")
         /\ \A i \in 1..Len(in.keys) :
               IF in.keys[i] # "content"
               THEN /\ (~lenient \/ Inert(in.vals[i])) => out.vals[i] = in.vals[i]
                    /\ lenient => Framed(in.vals[i], out.vals[i], TRUE, FALSE)
               ELSE IF in.vals[i].t # "list"
               THEN Framed(in.vals[i], out.vals[i], lenient, FALSE)
               ELSE OneForOne(in.vals[i].vals) =>
                       /\ out.vals[i].t = "list"
                       /\ IF root THEN Len(out.vals[i].vals) >= Len(in.vals[i].vals)
                          ELSE Len(out.vals[i].vals) = Len(in.vals[i].vals)
                       /\ \A c \in 1..Len(in.vals[i].vals) :
                             Framed(in.vals[i].vals[c], out.vals[i].vals[c], lenient, FALSE)

TheMedia(node) ==
    IF JType(node) = S("media") THEN node
    ELSE IF JHas(node, "content") /\ JTruthy(JGet(node, "content"))
         THEN JGet(node, "content").vals[1]
         ELSE JDict(<<>>, <<>>)

\* attrs.fileName if it is not empty, else attrs.name, else nothing.
NameOf(media) ==
    IF ~JHas(media, "attrs") THEN JNull
    ELSE LET attrs == JGet(media, "attrs")
         IN IF JHas(attrs, "fileName") /\ JTruthy(JGet(attrs, "fileName"))
            THEN JGet(attrs, "fileName")
            ELSE IF JHas(attrs, "name") THEN JGet(attrs, "name") ELSE JNull

\* The paragraph for filename f: one text node showing f, or "image" when
\* there is no filename, linked to the URL that mapping m has for f, if any.
LinkParagraphFor(f, m) ==
    LET shown == IF JTruthy(f) THEN f ELSE S("image")
        hit == {i \in 1..Len(m) : f = JStr(m[i][1])}
        words == IF hit = {}
                 THEN JDict(<<"type", "text">>, <<S("text"), shown>>)
                 ELSE JDict(<<"type", "text", "marks">>,
                            <<S("text"), shown,
                              JList(<<JDict(<<"type", "attrs">>,
                                            <<S("link"),
                                              JDict(<<"href">>,
                                                    <<JStr(m[CHOOSE i \in hit : TRUE][2])>>)>>)>>)>>)
    IN JDict(<<"type", "content">>, <<S("paragraph"), JList(<<words>>)>>)

\* The paragraph that C6 describes for a mediaSingle or media node.
ParagraphFor(node, m) == LinkParagraphFor(NameOf(TheMedia(node)), m)

RECURSIVE MediaReplaced(_, _, _)
\* Wherever tree in has a mediaSingle or media node that the rewrite keeps in
\* place, tree out has the paragraph of C6.
MediaReplaced(in, out, m) ==
    IF JType(in) \in {S("media"), S("mediaSingle")} THEN out = ParagraphFor(in, m)
    ELSE IF JIsMedia(in) \/ in.t \notin {"dict", "list"} THEN TRUE
    ELSE IF in.t = "list"
    THEN /\ out.t = "list" /\ Len(out.vals) = Len(in.vals)
         /\ \A i \in 1..Len(in.vals) : MediaReplaced(in.vals[i], out.vals[i], m)
    ELSE /\ out.t = "dict" /\ Len(out.vals) >= Len(in.vals)
         /\ \A i \in 1..Len(in.keys) :
               IF in.keys[i] = "content" /\ in.vals[i].t = "list"
               THEN OneForOne(in.vals[i].vals) =>
                       /\ out.vals[i].t = "list"
                       /\ Len(out.vals[i].vals) >= Len(in.vals[i].vals)
                       /\ \A c \in 1..Len(in.vals[i].vals) :
                             MediaReplaced(in.vals[i].vals[c], out.vals[i].vals[c], m)
               ELSE MediaReplaced(in.vals[i], out.vals[i], m)

\* C6: when the rewrite returns, a mediaSingle node (through its first
\* child) or a media node has become one paragraph with one text node; the
\* text is attrs.fileName if not empty, else attrs.name, else "image"; the
\* text node has one link mark to U when the mapping has the entry
\* (filename, U), and no marks otherwise.
C6_MediaBecomesLinkParagraph ==
    pc = "rewritten" /\ result.ok => MediaReplaced(doc, Output, Mapping)

\* A doc whose first child is a mediaSingle of a.png, rewritten with a
\* mapping that knows a.png.
C6_Witness ==
    /\ pc = "rewritten" /\ result.ok
    /\ JIsDocWithList(doc) /\ Len(JGet(doc, "content").vals) > 0
    /\ JType(JGet(doc, "content").vals[1]) = S("mediaSingle")
    /\ OneForOne(JGet(doc, "content").vals)
    /\ \E i \in 1..Len(Mapping) : Mapping[i][1] = <<"a.png">>

RECURSIVE JHasDoc(_)
\* Tree j is, or holds, a doc-typed node.
JHasDoc(j) == JIsDoc(j) \/ \E i \in 1..Len(j.vals) : JHasDoc(j.vals[i])
\* Tree j holds a doc-typed node below its root.
JHasDocBelow(j) == \E i \in 1..Len(j.vals) : JHasDoc(j.vals[i])

IsGroup(j) == JType(j) = S("mediaGroup") /\ JHas(j, "content") /\ JTruthy(JGet(j, "content"))

RECURSIVE Spliced(_, _, _)
RECURSIVE SplicedChildren(_, _, _)
\* Child sequence outs is child sequence ins with every mediaGroup of n >= 1
\* items replaced, at its position, by the n paragraphs of its items, and
\* with one child for every other child, in the same order.  Children that
\* follow in outs after the last of ins belong to the post-pass.
SplicedChildren(ins, outs, m) ==
    IF ins = <<>> THEN TRUE
    ELSE IF IsGroup(ins[1])
    THEN LET items == JGet(ins[1], "content").vals
         IN /\ Len(outs) >= Len(items)
            /\ \A k \in 1..Len(items) : outs[k] = LinkParagraphFor(NameOf(items[k]), m)
            /\ SplicedChildren(Tail(ins), SubSeq(outs, Len(items) + 1, Len(outs)), m)
    ELSE /\ Len(outs) >= 1
         /\ Spliced(ins[1], outs[1], m)
         /\ SplicedChildren(Tail(ins), Tail(outs), m)
\* Node out is node in with the mediaGroups below it spliced into their
\* parents.
Spliced(in, out, m) ==
    IF JIsMedia(in) THEN JType(out) = S("paragraph")
    ELSE IF in.t = "list"
    THEN out.t = "list" /\ SplicedChildren(in.vals, out.vals, m)
    ELSE IF in.t # "dict" THEN out = in
    ELSE /\ out.t = "dict" /\ Len(out.vals) >= Len(in.vals)
         /\ \A i \in 1..Len(in.keys) :
               IF in.vals[i].t = "list"
               THEN out.vals[i].t = "list"
                    /\ SplicedChildren(in.vals[i].vals, out.vals[i].vals, m)
               ELSE IF IsGroup(in.vals[i])
               THEN FALSE   \* the group's parent has no child sequence
               ELSE Spliced(in.vals[i], out.vals[i], m)

\* C7: when the rewrite returns, every mediaGroup with n >= 1 items below the
\* root has become n paragraphs, in item order, at the group's position in
\* the child sequence of its parent, between the siblings in their order;
\* and no doc-typed wrapper is nested anywhere in the output.
C7_GroupSplicedIntoParent ==
    pc = "rewritten" /\ result.ok /\ ~JIsMedia(doc) /\ ~JHasDocBelow(doc)
        => Spliced(doc, Output, Mapping) /\ ~JHasDocBelow(Output)

\* The two trailing nodes that C8 describes for mapping m.
Trailer(m) ==
    << JDict(<<"type", "content">>,
             <<S("paragraph"),
               JList(<<JDict(<<"type", "text">>, <<S("text"), S("Attachments:")>>)>>)>>),
       JDict(<<"type", "content">>,
             <<S("bulletList"),
               JList([i \in 1..Len(m) |->
                         JDict(<<"type", "content">>,
                               <<S("listItem"),
                                 JList(<<LinkParagraphFor(JStr(m[i][1]), m)>>)>>)])>>) >>

LastTwo(seq) == SubSeq(seq, Len(seq) - 1, Len(seq))

\* The number of children that the root has after the rewrite, counted
\* against the input for a doc whose children are rewritten one for one.
RootGrowth ==
    IF JHas(Output, "content") /\ JGet(Output, "content").t = "list"
    THEN Len(JGet(Output, "content").vals)
            - (IF JIsDocWithList(doc) THEN Len(JGet(doc, "content").vals) ELSE 0)
    ELSE 0

RECURSIVE JHasLinkTo(_, _)
\* Tree j holds a text node with a link mark whose href is url.
JHasLinkTo(j, url) ==
    \/ /\ JType(j) = S("text") /\ JHas(j, "marks")
       /\ \E i \in 1..Len(JGet(j, "marks").vals) :
             LET mark == JGet(j, "marks").vals[i]
             IN /\ JType(mark) = S("link") /\ JHas(mark, "attrs")
                /\ JHas(JGet(mark, "attrs"), "href")
                /\ JGet(JGet(mark, "attrs"), "href") = url
    \/ \E i \in 1..Len(j.vals) : JHasLinkTo(j.vals[i], url)

\* C9: the document returned for a doc-rooted description holds, for every
\* record of copy_attachments that has a download URL, a text node with a
\* link mark to that URL; also for two attachments of the same filename.
C9_EveryCopyLinked ==
    pc = "rewritten" /\ result.ok /\ JIsDoc(doc) =>
        \A i \in 1..Len(copied) :
            JTruthy(copied[i].content) => JHasLinkTo(Output, copied[i].content)

RECURSIVE StripMedia(_)
\* Tree j with every subtree rooted at a media, mediaSingle or mediaGroup
\* node deleted: the entry of its parent dict, or the element of its parent
\* list, is gone.
StripMedia(j) ==
    IF j.t \notin {"dict", "list"} THEN j
    ELSE LET kept == SelectSeq([i \in 1..Len(j.vals) |-> i], LAMBDA i : ~JIsMedia(j.vals[i]))
             vals == [i \in 1..Len(kept) |-> StripMedia(j.vals[kept[i]])]
         IN IF j.t = "list" THEN JList(vals)
            ELSE JDict([i \in 1..Len(kept) |-> j.keys[kept[i]]], vals)

\* C10: the string that _extract_text_from_adf returns for a tree is the
\* string it returns for the tree without its media-family subtrees
\* (nothing is left of a tree whose root is of a media type).
C10_TextIgnoresMedia ==
    pc # "create" => text = (IF JIsMedia(doc) THEN <<>> ELSE TextOf(StripMedia(doc)))

\* The text of a doc with words in a paragraph and a caption inside a
\* mediaSingle.
C10_Witness ==
    /\ pc # "create"
    /\ JIsDocWithList(doc) /\ Len(JGet(doc, "content").vals) = 2
    /\ JType(JGet(doc, "content").vals[2]) = S("mediaSingle")
    /\ TextOf(JGet(doc, "content").vals[2].vals[2]) # <<>>
    /\ text = <<"Hello", " ", "world">>

RECURSIVE Flat(_)
\* The sequences of sequence qs written one after the other.
Flat(qs) == IF qs = <<>> THEN <<>> ELSE Head(qs) \o Flat(Tail(qs))

RECURSIVE TextsOf(_)
\* The 'text' values of the text-typed nodes of tree j that lie outside the
\* media-family subtrees, in document order: a node before the nodes below
\* it, and these in the order of its keys and children.
TextsOf(j) ==
    IF JIsMedia(j) THEN <<>>
    ELSE (IF JType(j) = S("text") /\ JHas(j, "text") THEN <<JGet(j, "text")>> ELSE <<>>)
            \o Flat([i \in 1..Len(j.vals) |-> TextsOf(j.vals[i])])

\* The strings of sequence vs written one after the other.
Concatenation(vs) == Flat([i \in 1..Len(vs) |-> vs[i].s])

\* C11: the string that _extract_text_from_adf returns is the 'text' values
\* of the text-typed nodes outside the media-family subtrees, written one
\* after the other in document order, each once and with nothing between
\* them.
C11_TextIsConcatenation == pc # "create" => text = Concatenation(TextsOf(doc))

\* The doc with the text nodes "Hello " and "world" and a sibling media
\* node yields "Hello world".
C11_Witness ==
    /\ pc # "create"
    /\ doc = Doc(<<Node("paragraph", <<Words(<<"Hello", " ">>), Text("world")>>), Media(NoName)>>)
    /\ text = <<"Hello", " ", "world">>

\* C18: the tree that the rewrite returns holds no node of type media,
\* mediaSingle or mediaGroup: not in a 'content' list, not in another
\* attribute and not in the appended attachment list.  The same is true of
\* the tree that it returns when applied to that tree.
C18_NoMediaInOutput ==
    /\ pc = "rewritten" /\ result.ok => ~JHasMedia(Output)
    /\ pc = "done" /\ result2.ok => ~JHasMedia(Output2)

\* A returned tree whose input has a media node under a key other than
\* 'content', rewritten with a mapping that has an entry.
C18_Witness ==
    /\ pc = "rewritten" /\ result.ok /\ Mapping # <<>>
    /\ JIsDocWithList(doc) /\ Len(JGet(doc, "content").vals) = 1
    /\ JHas(JGet(doc, "content").vals[1], "attrs")
    /\ JIsMedia(JGet(JGet(doc, "content").vals[1], "attrs"))
    /\ JType(JGet(doc, "content").vals[1]) = S("paragraph")

(***************************************************************************)
(* Readings of the requests of a clone.                                    *)
(***************************************************************************)
CopyOps == {"list_attachments", "download", "upload"}
Sent(ops) == {i \in 1..Len(log) : log[i].op \in ops}
Left == pc \in {"returned", "raised"}

C13_UpdateFailureOnlyReported ==
    \A i \in Sent({"update"}) :
       log[i].answer = "not_ok" =>
          /\ pc = "returned"
          /\ JTruthy(ret) /\ ret = new_issue_key
          /\ i = Len(log)
C13_Witness ==
    /\ pc = "returned"
    /\ \E i \in Sent({"update"}) : log[i].answer = "not_ok"
    /\ Sent({"link"}) # {}
    /\ Len(copied) = 1

RECURSIVE Uploaded(_)
\* The records of the uploads that succeeded among the requests q, in order.
Uploaded(q) ==
    IF q = <<>> THEN <<>>
    ELSE LET before == Uploaded(SubSeq(q, 1, Len(q) - 1))
             last == q[Len(q)]
         IN IF last.op = "upload" /\ last.answer \in {"uploaded", "uploaded_no_content"}
            THEN Append(before, last.arg)
            ELSE before
FilenamesOf(records) == [i \in 1..Len(records) |-> records[i].filename]
\* This step sends a request of the copy that is answered by one of answers.
CopyStep(answers) ==
    /\ Len(log') = Len(log) + 1
    /\ log'[Len(log')].op \in CopyOps
    /\ log'[Len(log')].answer \in answers

\* C14: a listing, download or upload request that fails, by a status that
\* is not OK or in the network, does not abort the clone: the clone is not
\* left by an exception at that request, and the records are those of the
\* successful uploads in source order.
C14_CopyFailureDoesNotAbort ==
    [][/\ CopyStep({"not_ok", "error"}) => pc' # "raised"
       /\ FilenamesOf(copied') = Uploaded(log')]_vars

\* C15: a file written to the temp directory is there only while its
\* attachment is being uploaded: outside that step, and so whenever
\* copy_attachments has been left, the temp directory holds no file,
\* whatever the outcome of the upload was.
C15_TempFilesRemoved == pc # "staged" => temp = {}

\* The create requests whose description create_issue took from the linked
\* issue: its own fetch of the issue, two requests earlier, was answered.
CreatesFromSource ==
    {i \in Sent({"create"}) : log[i - 2].op = "get_issue" /\ log[i - 2].answer = "ok"}
IsListOfOne(j) == j.t = "list" /\ Len(j.vals) = 1
\* A doc of one paragraph of one text node.
IsTextDoc(j) ==
    /\ JType(j) = S("doc") /\ JHas(j, "content") /\ IsListOfOne(JGet(j, "content"))
    /\ LET paragraph == JGet(j, "content").vals[1]
       IN /\ JType(paragraph) = S("paragraph")
          /\ JHas(paragraph, "content") /\ IsListOfOne(JGet(paragraph, "content"))
          /\ LET node == JGet(paragraph, "content").vals[1]
             IN JType(node) = S("text") /\ JHas(node, "text") /\ JGet(node, "text").t = "str"
\* The text of such a doc.
TextSent(j) == JGet(JGet(JGet(j, "content").vals[1], "content").vals[1], "text").s

\* C16: when the description of the linked issue is a dict, the description
\* that create_issue sends in the create request is a doc of one paragraph
\* of one text node and holds no media, mediaSingle or mediaGroup node.
C16_CreateSendsTextOnly ==
    \A i \in CreatesFromSource :
       doc.t = "dict" => IsTextDoc(log[i].arg) /\ ~JHasMedia(log[i].arg)
C16_Witness ==
    /\ \E i \in CreatesFromSource :
          IsTextDoc(log[i].arg) /\ TextSent(log[i].arg) = <<"Hello", " ", "world">>
    /\ JHasMedia(doc)

\* The text that the description of the source yields.
SourceText == IF doc.t = "dict" THEN TextOf(doc) ELSE IF doc.t = "str" THEN doc.s ELSE <<>>
Blank(s) == strip(s) = <<>>

\* C17: the description that create_issue sends when it clones from the
\* linked issue is a text that is not empty and not all whitespace, and it
\* is the placeholder "Cloned from <key>" whenever the source description
\* yields no text.
C17_TextNeverBlank ==
    \A i \in CreatesFromSource :
       /\ IsTextDoc(log[i].arg)
       /\ ~Blank(TextSent(log[i].arg))
       /\ Blank(SourceText) => TextSent(log[i].arg) = Placeholder(SourceKey)

(***************************************************************************)
(* Readings of the search and the loop of the main script.                 *)
(***************************************************************************)
RECURSIVE IssuesOf(_)
\* The issues of the responses q, one page after the other.
IssuesOf(q) ==
    IF q = <<>> THEN <<>> ELSE IssuesOf(SubSeq(q, 1, Len(q) - 1)) \o q[Len(q)].issues
Continues(page) == page.answer = "ok" /\ JTruthy(page.token)

\* C19: search_issues_by_jql requests the first page without a token and
\* every later page with the token of the response before it; it goes on
\* exactly while the responses are OK and carry a token; after an OK
\* response without a token it returns the issues of all pages in page
\* order, and after a response that is not OK or a request exception it
\* returns the empty list.
C19_SearchCollectsAllPages ==
    /\ \A k \in 1..Len(pages) :
          pages[k].sent = IF k = 1 THEN JNull ELSE pages[k - 1].token
    /\ \A k \in 1..(Len(pages) - 1) : Continues(pages[k])
    /\ pc = "search" /\ pages # <<>> => Continues(pages[Len(pages)])
    /\ pc = "searched" =>
          /\ ~Continues(pages[Len(pages)])
          /\ existing_issues = IF pages[Len(pages)].answer = "ok"
                               THEN IssuesOf(pages) ELSE <<>>
C19_Witness ==
    /\ pc = "searched"
    /\ Len(pages) = 2
    /\ pages[2].sent = Token(1)
    /\ existing_issues = <<IssueOnPage(1), IssueOnPage(2)>>

\* C20: when the search for the clone summary of a selected issue returns
\* issues, the loop goes on to the next selected issue and nothing is sent
\* or called for this one.
C20_DuplicateIsSkipped ==
    [][pc = "searched" /\ existing_issues # <<>> =>
          /\ pc' = "loop"
          /\ place' = place + 1
          /\ log' = log]_vars
C20_Witness ==
    /\ pc = "search"
    /\ place = 2
    /\ existing_issues # <<>>
    /\ log = <<>>

\* C21: for a selected issue whose search returned no issue, the call of
\* clone_issue_with_media_upload is accepted: the script is not ended by an
\* exception at that call.
C21_CloneCallAccepted ==
    [][pc = "searched" /\ existing_issues = <<>> => pc' # "raised"]_vars

(***************************************************************************)
(* Readings of search_issues_excpt_head_by_jql.                            *)
(***************************************************************************)
KeyAt(i) == JGet(args.issues[i], "key").s
SummaryAt(i) == JGet(JGet(args.issues[i], "fields"), "summary").s
\* The i-th found issue has a linked issue whose summary holds the head
\* string and the issue's key.
HasHeadAndKeyLink(i) ==
    \E n \in 1..Len(args.linked[i]) :
       Contains(args.head_str, args.linked[i][n]) /\ Contains(KeyAt(i), args.linked[i][n])
\* The i-th found issue has a clone made by the script linked to it.
HasClone(i) ==
    \E n \in 1..Len(args.linked[i]) : args.linked[i][n] = CloneSummary(SummaryAt(i), KeyAt(i))
RECURSIVE WithoutHeadAndKeyLink(_)
\* The first k found issues that have no such link, in search order.
WithoutHeadAndKeyLink(k) ==
    IF k = 0 THEN <<>>
    ELSE IF HasHeadAndKeyLink(k) THEN WithoutHeadAndKeyLink(k - 1)
    ELSE Append(WithoutHeadAndKeyLink(k - 1), args.issues[k])
Returns(i) == \E n \in 1..Len(ret.vals) : ret.vals[n] = args.issues[i]
AllAnswered == \A n \in 1..Len(log) : log[n].answer = "ok"

\* C22: when every request for the linked issues is answered,
\* search_issues_excpt_head_by_jql returns, in search order, the found
\* issues that have no linked issue whose summary holds 'Clone-' and the
\* issue's key; an issue with a linked clone of itself is left out, and an
\* issue without a clone is returned.
C22_OnlyClonedIssuesOmitted ==
    pc = "returned" /\ AllAnswered =>
       /\ ret.vals = WithoutHeadAndKeyLink(Len(args.issues))
       /\ \A i \in 1..Len(args.issues) : HasClone(i) => ~Returns(i)
       /\ \A i \in 1..Len(args.issues) : ~HasClone(i) => Returns(i)

(***************************************************************************)
(* Readings of the issue type resolution.                                  *)
(***************************************************************************)
Allowed == args.allowed_types
IdOf(i) == get(Allowed[i], "id")
NameOfType(i) == get(Allowed[i], "name")
OnlyId(v) == JDict(<<"id">>, <<v>>)
OnlyName(v) == JDict(<<"name">>, <<v>>)
Least(indexes) == CHOOSE i \in indexes : \A j \in indexes : i <= j
\* The requested type without the blanks around it.
Req == strip(py_str(args.issue_type))
ReqIdMatches ==
    {i \in 1..Len(Allowed) :
        JTruthy(args.issue_type) /\ isdigit(Req) /\ py_str(IdOf(i)) = Req}
ReqNameMatches ==
    {i \in 1..Len(Allowed) :
        JTruthy(args.issue_type) /\ lower(py_str(NameOfType(i))) = lower(Req)}
\* The type of the linked issue: an empty dict if there is none.
Src ==
    IF /\ args.linked_issue_key # <<>> /\ args.linked_issue # JNull
       /\ JHas(JGet(args.linked_issue, "fields"), "issuetype")
       /\ JGet(JGet(args.linked_issue, "fields"), "issuetype").t = "dict"
    THEN JGet(JGet(args.linked_issue, "fields"), "issuetype")
    ELSE JDict(<<>>, <<>>)
SrcIdMatches ==
    {i \in 1..Len(Allowed) :
        JTruthy(get(Src, "id")) /\ py_str(IdOf(i)) = py_str(get(Src, "id"))}
SrcNameMatches ==
    {i \in 1..Len(Allowed) :
        JTruthy(get(Src, "name"))
        /\ lower(py_str(NameOfType(i))) = lower(py_str(get(Src, "name")))}
\* The allowed type i named by its id if it has one, else by name.
Naming(i, name) == IF JTruthy(IdOf(i)) THEN OnlyId(IdOf(i)) ELSE OnlyName(name)
\* Type r, as sent, is the allowed type i: by id, or by name whatever the case.
Denotes(r, i) ==
    \/ JHas(r, "id") /\ JTruthy(IdOf(i)) /\ py_str(JGet(r, "id")) = py_str(IdOf(i))
    \/ JHas(r, "name") /\ lower(py_str(JGet(r, "name"))) = lower(py_str(NameOfType(i)))

====
